---- MODULE Spec2Model ----
(***************************************************************************)
(* Model of announce_completion.py: a one-shot command-line announcer that *)
(* hands a message to the text-to-speech command of the host platform.     *)
(*                                                                         *)
(* Text is a sequence of atoms (strings): a message typed on the command   *)
(* line is a sequence of one-character atoms, a literal of the program is  *)
(* a single atom.  An argument vector is a sequence of texts, standard     *)
(* output is a sequence of lines, each line a text.                        *)
(*                                                                         *)
(* Standard output is taken to accept every line written to it.            *)
(***************************************************************************)
EXTENDS Integers, Sequences, FiniteSets, TLC

VARIABLES sys_argv, system, pc, message, stdout, procs, spoken

vars == <<sys_argv, system, pc, message, stdout, procs, spoken>>

(* ------------------------------ bounds -------------------------------- *)

\* most positional arguments on the command line
MaxArgs == 2
\* most characters in one positional argument
MaxWordLen == 1

Alphabet == {"a", " "}

Words == UNION {[1..n -> Alphabet] : n \in 0..MaxWordLen}

ArgLists == UNION {[1..n -> Words] : n \in 0..MaxArgs}

\* values platform.system() can return: the three the program knows, one it
\* does not, and the empty string returned when the platform is undetermined
Systems == {"Darwin", "Windows", "Linux", "FreeBSD", ""}

ScriptName == <<"announce_completion.py">>

DefaultMessage == <<"Barber Buddy development milestone completed!">>

\* exit statuses of a child process
ExitCodes == {0, 1}

\* what starting a child process can do: start it, or raise
SpawnOutcomes == {"started", "FileNotFoundError", "PermissionError"}

(* --------------------------- text helpers ----------------------------- *)

RECURSIVE JoinWith(_, _)
\* sep.join(parts)
JoinWith(parts, sep) ==
    IF Len(parts) = 0 THEN <<>>
    ELSE IF Len(parts) = 1 THEN parts[1]
    ELSE parts[1] \o sep \o JoinWith(Tail(parts), sep)

\* " ".join without the separator between the parts
JoinNoSpace(args) == JoinWith(args, <<>>)

\* " ".join(sys.argv[1:])
Join(args) == JoinWith(args, <<" ">>)

\* repr of a list of str, as str(CalledProcessError) formats its cmd
ReprList(args) ==
    <<"[">> \o JoinWith([i \in 1..Len(args) |-> <<"'">> \o args[i] \o <<"'">>], <<", ">>)
            \o <<"]">>

StrCode(code) == IF code = 0 THEN "0" ELSE "1"

(* ------------------------- exceptions, output ------------------------- *)

\* the classes an exception type is an instance of
Bases(type) ==
    CASE type = "CalledProcessError" -> {"CalledProcessError", "SubprocessError", "Exception"}
      [] type = "FileNotFoundError"  -> {"FileNotFoundError", "OSError", "Exception"}
      [] type = "PermissionError"    -> {"PermissionError", "OSError", "Exception"}
      [] OTHER                       -> {type}

IsInstance(type, cls) == cls \in Bases(type)

\* CalledProcessError(returncode, cmd), with its str()
CalledProcessError(code, args) ==
    [type |-> "CalledProcessError",
     str  |-> <<"Command '">> \o ReprList(args)
                \o <<"' returned non-zero exit status ", StrCode(code), ".">>]

\* the OSError raised when the program to execute cannot be started
SpawnError(type, argv) ==
    [type |-> type,
     str  |-> <<IF type = "FileNotFoundError"
                THEN "[Errno 2] No such file or directory: '"
                ELSE "[Errno 13] Permission denied: '">> \o argv[1] \o <<"'">>]

MessageLine(msg) == <<"Message: ">> \o msg

TtsErrorLine(exc) == <<"Error running text-to-speech: ">> \o exc.str

UnexpectedLine(exc) == <<"Unexpected error: ">> \o exc.str

\* the unsupported-system branch printing the platform only
UnsupportedNoMessage(sys, msg) == << <<"Unsupported system: ", sys>> >>

\* the two prints of the unsupported-system branch
UnsupportedOutput(sys, msg) == << <<"Unsupported system: ", sys>>, MessageLine(msg) >>

\* the outer handlers without the catch-all clause
OuterHandlerNoCatchAll(exc, out, msg) ==
    IF IsInstance(exc.type, "CalledProcessError")
    THEN [pc |-> "done", stdout |-> out \o <<TtsErrorLine(exc), MessageLine(msg)>>]
    ELSE [pc |-> "raised", stdout |-> out]

\* the outer handlers with the catch-all clause written first
OuterHandlerCatchAllFirst(exc, out, msg) ==
    IF IsInstance(exc.type, "Exception")
    THEN [pc |-> "done", stdout |-> out \o <<UnexpectedLine(exc), MessageLine(msg)>>]
    ELSE [pc |-> "raised", stdout |-> out]

\* the outer handlers echoing the message before and after the error line
OuterHandlerEchoTwice(exc, out, msg) ==
    IF IsInstance(exc.type, "CalledProcessError")
    THEN [pc |-> "done",
          stdout |-> out \o <<MessageLine(msg), TtsErrorLine(exc), MessageLine(msg)>>]
    ELSE IF IsInstance(exc.type, "Exception")
    THEN [pc |-> "done",
          stdout |-> out \o <<MessageLine(msg), UnexpectedLine(exc), MessageLine(msg)>>]
    ELSE [pc |-> "raised", stdout |-> out]

\* the except clauses of the outer try, tried in order; an exception that
\* matches neither leaves the function
OuterHandler(exc, out, msg) ==
    IF IsInstance(exc.type, "CalledProcessError")
    THEN [pc |-> "done", stdout |-> out \o <<TtsErrorLine(exc), MessageLine(msg)>>]
    ELSE IF IsInstance(exc.type, "Exception")
    THEN [pc |-> "done", stdout |-> out \o <<UnexpectedLine(exc), MessageLine(msg)>>]
    ELSE [pc |-> "raised", stdout |-> out]

\* an inner clause that catches every OSError
InnerCatchesOSError(exc) == IsInstance(exc.type, "OSError")

\* an inner clause that catches every exception
InnerCatchesAll(exc) == IsInstance(exc.type, "Exception")

\* the except clause of the try around the espeak call
InnerCatches(exc) == IsInstance(exc.type, "FileNotFoundError")

\* where an exception raised by subprocess.run goes: inTry says the call is
\* the one inside the inner try (the espeak call)
Raise(inTry, exc, out, msg) ==
    IF inTry /\ InnerCatches(exc)
    THEN [pc |-> "fallback", stdout |-> out]
    ELSE OuterHandler(exc, out, msg)

(* --------------------------- child processes -------------------------- *)

SpeakPrefix == "Add-Type -AssemblyName System.Speech; $speak = New-Object System.Speech.Synthesis.SpeechSynthesizer; $speak.Speak(\""

SpeakSuffix == "\")"

\* the f-string handed to powershell -Command
SpeakScript(msg) == <<SpeakPrefix>> \o msg \o <<SpeakSuffix>>

\* the argument list of the fallback call
FestivalArgs(msg) == << <<"echo">>, msg, <<"|">>, <<"festival">>, <<"--tts">> >>

\* the argument vector subprocess executes on POSIX: with shell=True the
\* list is appended to /bin/sh -c, so its first item is the command string
\* and the others are the shell's positional parameters
PopenArgs(args, shell) ==
    IF shell THEN << <<"/bin/sh">>, <<"-c">> >> \o args ELSE args

RECURSIVE SplitOn(_, _)
\* the pieces of text s between the occurrences of atom sep
SplitOn(s, sep) ==
    IF \A i \in 1..Len(s) : s[i] # sep THEN <<s>>
    ELSE LET i == CHOOSE k \in 1..Len(s) :
                      s[k] = sep /\ \A j \in 1..(k - 1) : s[j] # sep
         IN  <<SubSeq(s, 1, i - 1)>> \o SplitOn(SubSeq(s, i + 1, Len(s)), sep)

\* the words of one command of a shell command string
ShWords(stage) == SelectSeq(SplitOn(stage, " "), LAMBDA w : w # <<>>)

\* what echo writes: its operands separated by spaces
EchoOut(words) == JoinWith(Tail(words), <<" ">>)

\* what /bin/sh -c does with its command string when it exits 0: the
\* positional parameters after the command string are not part of it
ShEffect(argv) ==
    LET stages == SplitOn(argv[3], "|")
        cmd    == [i \in 1..Len(stages) |-> ShWords(stages[i])]
    IN  IF Len(stages) = 1 /\ Len(cmd[1]) > 0 /\ cmd[1][1] = <<"echo">>
        THEN [spoken |-> <<>>, out |-> <<EchoOut(cmd[1])>>]
        ELSE IF /\ Len(stages) = 2
                /\ Len(cmd[1]) > 0 /\ cmd[1][1] = <<"echo">>
                /\ Len(cmd[2]) > 0 /\ cmd[2][1] = <<"festival">>
        THEN [spoken |-> <<EchoOut(cmd[1])>>, out |-> <<>>]
        ELSE [spoken |-> <<>>, out |-> <<>>]

\* what a child that exits 0 has done: the texts given to a speech engine
\* and the lines it wrote to the standard output it inherits
ChildEffect(argv) ==
    CASE argv[1] = <<"say">>        -> [spoken |-> <<argv[2]>>, out |-> <<>>]
      [] argv[1] = <<"espeak">>     -> [spoken |-> <<argv[2]>>, out |-> <<>>]
      [] argv[1] = <<"powershell">> ->
            [spoken |-> <<SubSeq(argv[3], 2, Len(argv[3]) - 1)>>, out |-> <<>>]
      [] argv[1] = <<"/bin/sh">>    -> ShEffect(argv)
      [] OTHER                      -> [spoken |-> <<>>, out |-> <<>>]

Running == {i \in 1..Len(procs) : procs[i].state = "running"}

(* ------------------------------ actions ------------------------------- *)

Init ==
    /\ sys_argv \in {<<ScriptName>> \o a : a \in ArgLists}
    /\ system \in Systems
    /\ pc = "main"
    /\ message = <<>>
    /\ stdout = <<>>
    /\ procs = <<>>
    /\ spoken = <<>>

\* the __main__ block up to the call of announce_completion
Main ==
    /\ pc = "main"
    /\ message' = IF Len(sys_argv) > 1
                  THEN Join(SubSeq(sys_argv, 2, Len(sys_argv)))
                  ELSE DefaultMessage
    /\ pc' = "announce"
    /\ UNCHANGED <<sys_argv, system, stdout, procs, spoken>>

\* subprocess.run(args, shell=shell, check=True) up to the start of the
\* child: it starts and the caller waits, or starting it raises
Run(args, shell, inTry) ==
    \E o \in SpawnOutcomes :
        LET argv == PopenArgs(args, shell) IN
        /\ procs' = Append(procs, [args |-> args, argv |-> argv,
                                   state |-> IF o = "started" THEN "running" ELSE o])
        /\ IF o = "started"
           THEN /\ pc' = "wait"
                /\ stdout' = stdout
           ELSE LET r == Raise(inTry, SpawnError(o, argv), stdout, message) IN
                /\ pc' = r.pc
                /\ stdout' = r.stdout
        /\ UNCHANGED <<sys_argv, system, message, spoken>>

SayDarwin ==
    /\ pc = "announce"
    /\ system = "Darwin"
    /\ Run(<< <<"say">>, message >>, FALSE, FALSE)

SpeakWindows ==
    /\ pc = "announce"
    /\ system = "Windows"
    /\ Run(<< <<"powershell">>, <<"-Command">>, SpeakScript(message) >>, FALSE, FALSE)

EspeakLinux ==
    /\ pc = "announce"
    /\ system = "Linux"
    /\ Run(<< <<"espeak">>, message >>, FALSE, TRUE)

\* the body of the inner except clause
FestivalFallback ==
    /\ pc = "fallback"
    /\ Run(FestivalArgs(message), TRUE, FALSE)

Unsupported ==
    /\ pc = "announce"
    /\ system \notin {"Darwin", "Windows", "Linux"}
    /\ stdout' = stdout \o UnsupportedOutput(system, message)
    /\ pc' = "done"
    /\ UNCHANGED <<sys_argv, system, message, procs, spoken>>

\* the child the caller waits for exits: subprocess.run returns, or with
\* check=True raises CalledProcessError on a non-zero status
ProcessExit ==
    /\ pc = "wait"
    /\ \E code \in ExitCodes :
        LET n  == Len(procs)
            p  == procs[n]
            fx == ChildEffect(p.argv)
            r  == Raise(p.argv[1] = <<"espeak">>, CalledProcessError(code, p.args),
                        stdout, message)
        IN  /\ procs' = [procs EXCEPT ![n].state = IF code = 0 THEN "exit0" ELSE "exit1"]
            /\ IF code = 0
               THEN /\ spoken' = spoken \o fx.spoken
                    /\ stdout' = stdout \o fx.out
                    /\ pc' = "done"
               ELSE /\ spoken' = spoken
                    /\ stdout' = r.stdout
                    /\ pc' = r.pc
    /\ UNCHANGED <<sys_argv, system, message>>

Next ==
    \/ Main
    \/ SayDarwin
    \/ SpeakWindows
    \/ EspeakLinux
    \/ FestivalFallback
    \/ Unsupported
    \/ ProcessExit

Spec == Init /\ [][Next]_vars

\* the interpreter keeps running and every child started eventually exits
FairSpec == Spec /\ WF_vars(Next)

(* --------------------------- claim vocabulary ------------------------- *)

\* text m occurs in text line
Contains(line, m) ==
    \E i \in 0..(Len(line) - Len(m)) : SubSeq(line, i + 1, i + Len(m)) = m

HasPrefix(line, prefix) == Len(line) > 0 /\ line[1] = prefix

IsMessageLine(line) == line = <<"Message: ">> \o message

\* stdout holds a line starting with prefix, directly followed by the
\* line echoing the message
Reported(prefix) ==
    \E k \in 1..(Len(stdout) - 1) :
        HasPrefix(stdout[k], prefix) /\ IsMessageLine(stdout[k + 1])

CliArgs == SubSeq(sys_argv, 2, Len(sys_argv))

RECURSIVE Offset(_, _)
\* the place in the joined text before the i-th part
Offset(parts, i) ==
    IF i = 1 THEN 0 ELSE Offset(parts, i - 1) + Len(parts[i - 1]) + 1

\* the argument of the process that carries the message
Carried(p) ==
    IF p.args[1] = <<"powershell">>
    THEN SubSeq(p.args[3], 2, Len(p.args[3]) - 1)
    ELSE p.args[2]

Created == {i \in 1..Len(procs) : procs[i].state \in {"running", "exit0", "exit1"}}

FallbackTaken ==
    pc = "fallback" \/ \E i \in 1..Len(procs) : procs[i].args[1] = <<"echo">>

PrimaryNotFound ==
    /\ system = "Linux"
    /\ Len(procs) >= 1
    /\ procs[1].args[1] = <<"espeak">>
    /\ procs[1].state = "FileNotFoundError"

DiagnosticPrefixes ==
    {"Error running text-to-speech: ", "Unexpected error: ", "Unsupported system: "}

Diagnostics == {k \in 1..Len(stdout) : \E d \in DiagnosticPrefixes : HasPrefix(stdout[k], d)}

MessageLines == {k \in 1..Len(stdout) : HasPrefix(stdout[k], "Message: ")}

(* ------------------------------- claims ------------------------------- *)

\* C1: whatever the message, the platform and the outcome of every command
\* started (exit 0, non-zero exit, not found, another error), no exception
\* leaves announce_completion: once no child is pending the call has
\* returned or is about to start the fallback, also when the fallback
\* command itself raises inside the inner except clause.
C1_NeverEscapes ==
    /\ pc \in {"main", "announce", "fallback", "wait", "done"}
    /\ (procs # <<>> /\ Running = {}) => pc \in {"done", "fallback"}

C1_Witness ==
    /\ pc = "done"
    /\ Len(procs) = 2
    /\ procs[2].state = "PermissionError"

\* C2: when espeak is absent and the fallback has run to a zero exit, the
\* festival speech command has been given exactly the message.
C2_FallbackSpeaksMessage ==
    (/\ pc = "done"
     /\ PrimaryNotFound
     /\ Len(procs) = 2
     /\ procs[2].state = "exit0") => spoken = <<message>>

\* C3: in every completed call either a speech command that was given the
\* message exited 0, or the message has been printed to standard output.
C3_MessageNeverLost ==
    pc = "done" =>
        \/ \E i \in 1..Len(spoken) : spoken[i] = message
        \/ \E k \in 1..Len(stdout) : IsMessageLine(stdout[k])

\* C4: on every branch that starts a command (say, powershell, espeak, the
\* fallback), a command that ran and exited non-zero leaves on standard
\* output an "Error running text-to-speech" line directly followed by the
\* line with the message.
C4_NonZeroExitReported ==
    \A i \in 1..Len(procs) :
        procs[i].state = "exit1" => Reported("Error running text-to-speech: ")

C4_Witness ==
    /\ pc = "done"
    /\ Len(procs) = 2
    /\ procs[2].state = "exit1"
    /\ message # <<>>

\* C5: on a platform other than Darwin, Windows and Linux no process is
\* ever started, and the finished call has printed exactly the line with
\* the platform label and the line with the message.
C5_UnsupportedPlatform ==
    system \notin {"Darwin", "Windows", "Linux"} =>
        /\ procs = <<>>
        /\ pc \notin {"wait", "fallback"}
        /\ pc = "done" =>
              /\ Len(stdout) = 2
              /\ stdout[1] = <<"Unsupported system: ", system>>
              /\ IsMessageLine(stdout[2])

C5_Witness ==
    /\ pc = "done"
    /\ system = "FreeBSD"
    /\ message # <<>>
    /\ Len(stdout) = 2

\* C6: at most one process exists in a run and the call does not return
\* while it runs; a second command is started only on Linux after the
\* attempt to start espeak has ended with command-not-found, never while
\* another is running, and no command is started twice.
C6_SequentialSpawns ==
    /\ Len(procs) <= 2
    /\ Cardinality(Created) <= 1
    /\ Cardinality(Running) <= 1
    /\ pc = "done" => Running = {}
    /\ Len(procs) = 2 =>
          /\ PrimaryNotFound
          /\ procs[2].args[1] = <<"echo">>
    /\ \A i, j \in 1..Len(procs) : procs[i].args = procs[j].args => i = j

C6_Witness ==
    /\ pc = "done"
    /\ Len(procs) = 2
    /\ procs[2].state = "exit0"

C8_SuccessIsSilent ==
    (/\ pc = "done"
     /\ procs # <<>>
     /\ procs[Len(procs)].state = "exit0") =>
        /\ Carried(procs[Len(procs)]) = message
        /\ stdout = <<>>

\* C9: the fallback is taken exactly when espeak is not found; an espeak
\* that runs and exits non-zero is reported and nothing else is started;
\* on Darwin and Windows a command that is not found starts no fallback and
\* is reported by an "Unexpected error" line followed by the message.
C9_FallbackOnlyOnNotFound ==
    /\ FallbackTaken <=> PrimaryNotFound
    /\ (procs # <<>> /\ procs[1].args[1] = <<"espeak">> /\ procs[1].state = "exit1") =>
          /\ Len(procs) = 1
          /\ pc = "done"
          /\ Reported("Error running text-to-speech: ")
    /\ (system \in {"Darwin", "Windows"} /\ procs # <<>>
           /\ procs[1].state = "FileNotFoundError") =>
          /\ Len(procs) = 1
          /\ pc = "done"
          /\ Len(stdout) = 2
          /\ HasPrefix(stdout[1], "Unexpected error: ")
          /\ IsMessageLine(stdout[2])

C9_Witness ==
    /\ pc = "done"
    /\ system = "Linux"
    /\ Len(procs) = 1
    /\ procs[1].state = "exit1"

\* C10: when every command started eventually exits the call returns;
\* while a command has not exited the call neither returns nor prints,
\* and the only thing that can happen is that command's exit; a call
\* prints at most one diagnostic line and at most one message line, the
\* message line right after the diagnostic.
C10_ReturnsUnlessHung ==
    /\ <>(pc = "done")
    /\ [](Running # {} => (pc = "wait" /\ stdout = <<>>))
    /\ [][(Running # {} /\ Running' # {}) => UNCHANGED vars]_vars
    /\ [](/\ Cardinality(Diagnostics) <= 1
          /\ Cardinality(MessageLines) <= 1
          /\ \A k \in MessageLines : (k - 1) \in Diagnostics)

C10_Witness ==
    /\ pc = "done"
    /\ procs # <<>>
    /\ procs[Len(procs)].state = "exit1"
    /\ Cardinality(Diagnostics) = 1
    /\ Cardinality(MessageLines) = 1

====
